---- MODULE Spec2Model ----
(***************************************************************************)
(* fastcrc: the generic CRC32 engine (src/fastcrc/src/core.rs) and the two *)
(* wrapper digests with their one-shot helpers (crc32.rs, crc32c.rs).      *)
(*                                                                         *)
(* Representation.  A u32 is the set of the positions of its 1 bits        *)
(* (0 = least significant, 31 = most significant), so a value never        *)
(* leaves 32 bits: a left shift drops what crosses bit 31, exactly as the  *)
(* Rust `<<` on u32 does.  A byte (u8) and a table index (usize) are       *)
(* natural numbers.  A u32 literal 0xHHHHLLLL is written Hex32(\hHHHH,     *)
(* \hLLLL).                                                                *)
(***************************************************************************)
EXTENDS Integers, Sequences, FiniteSets, TLC

VARIABLES
    params, table, state,       \* the three fields of Crc32Engine
    given,                      \* history: the descriptor handed to new
    fed,                        \* history: bytes absorbed since new / the last reset
    prevFed, prev,              \* history: fed and the register before the last call
    lastOp,                     \* the last call made on the engine
    ret,                        \* value returned by the last finalize_u32
    out,                        \* buffer written by the last finalize_into(_reset)
    idxs, panicked,             \* table indices of the last update; index out of bounds
    variant, data, pc,          \* one-shot helper: which function, its argument, position
    rvalue, rwidth, rresult, rpc \* reflect_bits: arguments, result, position

engineVars == <<params, table, state, given, fed, prevFed, prev, lastOp,
                ret, out, idxs, panicked>>
oneShotVars == <<variant, data, pc>>
reflectVars == <<rvalue, rwidth, rresult, rpc>>
vars == <<engineVars, oneShotVars, reflectVars>>

------------------------------------------------------------------------------
(* u32 arithmetic on bit sets *)

BitsOf(n) == {k \in 0..15 : (n \div 2^k) % 2 = 1}
Hex32(hi, lo) == BitsOf(lo) \cup {k + 16 : k \in BitsOf(hi)}

RECURSIVE SumBits(_, _)
SumBits(v, k) == IF k < 0 THEN 0 ELSE (IF k \in v THEN 2^k ELSE 0) + SumBits(v, k - 1)
\* the number a bit set below bit 16 stands for
AsNat(v) == SumBits(v, 15)

Shl(v, n) == {b + n : b \in {x \in v : x + n <= 31}}
Shr(v, n) == {b - n : b \in {x \in v : x >= n}}
Xor(a, b) == (a \ b) \cup (b \ a)
And(a, b) == a \cap b
Or(a, b) == a \cup b
AsU8(v) == v \cap (0..7)
Zero == {}
One == {0}
TopBit == {31}
Evaluated(v) == v = v

------------------------------------------------------------------------------
(* core.rs *)

Algorithm32(name, polynomial, init, xor_out, reflect_in, reflect_out) ==
    [name |-> name, polynomial |-> polynomial, init |-> init, xor_out |-> xor_out,
     reflect_in |-> reflect_in, reflect_out |-> reflect_out]

\* The while loop of reflect_bits.  (Evaluated(reversed) only makes the tool
\* compute the argument before the next iteration instead of piling up
\* unevaluated shifts.)
RECURSIVE reflect_loop(_, _, _, _)
reflect_loop(value, reversed, i, width) ==
    IF i < width /\ Evaluated(reversed)
    THEN LET shifted == Shl(reversed, 1)
             r == IF And(value, One) # Zero THEN Or(shifted, One) ELSE shifted
         IN reflect_loop(Shr(value, 1), r, i + 1, width)
    ELSE reversed

\* seeded fault: the width argument is ignored and all 32 bits are reversed
reflect_bits_full_width(value, width) == reflect_loop(value, Zero, 0, 32)

reflect_bits(value, width) == reflect_loop(value, Zero, 0, width)

RECURSIVE rounds_reflected(_, _, _)
rounds_reflected(crc, reflected, n) ==
    IF n = 0 THEN crc
    ELSE rounds_reflected(IF And(crc, One) # Zero THEN Xor(Shr(crc, 1), reflected)
                                                  ELSE Shr(crc, 1),
                          reflected, n - 1)

RECURSIVE rounds_standard(_, _, _)
rounds_standard(crc, polynomial, n) ==
    IF n = 0 THEN crc
    ELSE rounds_standard(IF And(crc, TopBit) # Zero THEN Xor(Shl(crc, 1), polynomial)
                                                    ELSE Shl(crc, 1),
                         polynomial, n - 1)

\* seeded fault: the reflected table is built from the polynomial as given
build_table_plain_poly(polynomial, reflect) ==
    IF reflect
    THEN [i \in 0..255 |-> rounds_reflected(BitsOf(i), polynomial, 8)]
    ELSE [i \in 0..255 |-> rounds_standard(Shl(BitsOf(i), 24), polynomial, 8)]

build_table(polynomial, reflect) ==
    IF reflect
    THEN LET reflected == reflect_bits(polynomial, 32)
         IN [i \in 0..255 |-> rounds_reflected(BitsOf(i), reflected, 8)]
    ELSE [i \in 0..255 |-> rounds_standard(Shl(BitsOf(i), 24), polynomial, 8)]

\* The loops return the register together with the indices they used; an
\* index outside the table is Rust's out-of-bounds panic and ends the loop.
RECURSIVE update_reflected(_, _, _)
update_reflected(st, tbl, bytes) ==
    IF bytes = <<>> THEN [state |-> st, idxs |-> <<>>, panic |-> FALSE]
    ELSE LET byte == Head(bytes)
             idx == AsNat(Xor(AsU8(st), BitsOf(byte)))
         IN IF idx \notin DOMAIN tbl
            THEN [state |-> st, idxs |-> <<idx>>, panic |-> TRUE]
            ELSE LET r == update_reflected(Xor(Shr(st, 8), tbl[idx]), tbl, Tail(bytes))
                 IN [r EXCEPT !.idxs = <<idx>> \o r.idxs]

\* seeded fault: the index is taken from the top nine bits, without the u8 cast
RECURSIVE update_standard_wide(_, _, _)
update_standard_wide(st, tbl, bytes) ==
    IF bytes = <<>> THEN [state |-> st, idxs |-> <<>>, panic |-> FALSE]
    ELSE LET byte == Head(bytes)
             idx == AsNat(Xor(Shr(st, 23), BitsOf(byte)))
         IN IF idx \notin DOMAIN tbl
            THEN [state |-> st, idxs |-> <<idx>>, panic |-> TRUE]
            ELSE LET r == update_standard_wide(Xor(Shl(st, 8), tbl[idx]), tbl, Tail(bytes))
                 IN [r EXCEPT !.idxs = <<idx>> \o r.idxs]

RECURSIVE update_standard(_, _, _)
update_standard(st, tbl, bytes) ==
    IF bytes = <<>> THEN [state |-> st, idxs |-> <<>>, panic |-> FALSE]
    ELSE LET byte == Head(bytes)
             idx == AsNat(Xor(AsU8(Shr(st, 24)), BitsOf(byte)))
         IN IF idx \notin DOMAIN tbl
            THEN [state |-> st, idxs |-> <<idx>>, panic |-> TRUE]
            ELSE LET r == update_standard(Xor(Shl(st, 8), tbl[idx]), tbl, Tail(bytes))
                 IN [r EXCEPT !.idxs = <<idx>> \o r.idxs]

finalize_value(st, p) ==
    LET crc == IF p.reflect_in # p.reflect_out THEN reflect_bits(st, 32) ELSE st
    IN Xor(crc, p.xor_out)

\* u32::to_be_bytes
to_be_bytes(v) ==
    <<AsNat(AsU8(Shr(v, 24))), AsNat(AsU8(Shr(v, 16))),
      AsNat(AsU8(Shr(v, 8))), AsNat(AsU8(v))>>

new(p) == [params |-> p, table |-> build_table(p.polynomial, p.reflect_in), state |-> p.init]

\* seeded fault: every call starts again from params.init
absorb_from_init(self, bytes) ==
    LET r == IF self.params.reflect_in
             THEN update_reflected(self.params.init, self.table, bytes)
             ELSE update_standard(self.params.init, self.table, bytes)
    IN [self |-> IF r.panic THEN self ELSE [self EXCEPT !.state = r.state],
        idxs |-> r.idxs, panic |-> r.panic]

\* absorb returns the engine and the trace of the loop; a panic leaves the
\* assignment to self.state undone.
absorb(self, bytes) ==
    LET r == IF self.params.reflect_in
             THEN update_reflected(self.state, self.table, bytes)
             ELSE update_standard(self.state, self.table, bytes)
    IN [self |-> IF r.panic THEN self ELSE [self EXCEPT !.state = r.state],
        idxs |-> r.idxs, panic |-> r.panic]

update(self, bytes) == absorb(self, bytes)

\* seeded fault: reset rebuilds the table, for reflect_out instead of reflect_in
reset_rebuilding(self) ==
    [self EXCEPT !.state = self.params.init,
                 !.table = build_table(self.params.polynomial, self.params.reflect_out)]

\* seeded fault: the register is cleared instead of set to params.init
reset_to_zero(self) == [self EXCEPT !.state = Zero]

reset(self) == [self EXCEPT !.state = self.params.init]

\* seeded fault: the finalized value is written back into the register
finalize_u32_storing(self) ==
    LET v == finalize_value(self.state, self.params)
    IN [self |-> [self EXCEPT !.state = v], value |-> v]

finalize_u32(self) == [self |-> self, value |-> finalize_value(self.state, self.params)]

\* seeded fault: the bytes are written least significant first
finalize_into_le(self) ==
    LET b == to_be_bytes(finalize_u32(self).value)
    IN <<b[4], b[3], b[2], b[1]>>

finalize_into(self) == to_be_bytes(finalize_u32(self).value)

\* seeded fault: the register is reset before the checksum is read
finalize_into_reset_early(self) ==
    LET r == reset(self)
    IN [self |-> r, out |-> to_be_bytes(finalize_u32(r).value)]

finalize_into_reset(self) ==
    LET f == finalize_u32(self)
    IN [self |-> reset(f.self), out |-> to_be_bytes(f.value)]

------------------------------------------------------------------------------
(* crc32.rs, crc32c.rs *)

CRC32 == Algorithm32("crc32", Hex32(\h04C1, \h1DB7), Hex32(\hFFFF, \hFFFF),
                     Hex32(\hFFFF, \hFFFF), TRUE, TRUE)
CRC32C == Algorithm32("crc32c", Hex32(\h1EDC, \h6F41), Hex32(\hFFFF, \hFFFF),
                      Hex32(\hFFFF, \hFFFF), TRUE, TRUE)

------------------------------------------------------------------------------
(* The one-shot helpers crc32(data) and crc32c(data):                       *)
(*     let mut digest = Crc32::new(); digest.update(data);                  *)
(*     digest.finalize_u32()                                                *)
(* The wrapper's `inner` engine is held in params, table, state.            *)

\* b"123456789"
Check9 == <<49, 50, 51, 52, 53, 54, 55, 56, 57>>
\* b"The quick brown fox jumps over the lazy dog"
Fox == <<84, 104, 101, 32, 113, 117, 105, 99, 107, 32, 98, 114, 111, 119, 110,
      32, 102, 111, 120, 32, 106, 117, 109, 112, 115, 32, 111, 118, 101,
      114, 32, 116, 104, 101, 32, 108, 97, 122, 121, 32, 100, 111, 103>>

Prefixes(s) == {SubSeq(s, 1, n) : n \in 0..Len(s)}
\* arguments the helpers are called with: the test vectors and every prefix of them
OneShotInputs == Prefixes(Fox) \cup Prefixes(Check9)

VariantParams(v) == IF v = "crc32" THEN CRC32 ELSE CRC32C

Self == [params |-> params, table |-> table, state |-> state]

IdleEngineHistory ==
    /\ fed = <<>> /\ prevFed = <<>> /\ prev = Zero /\ lastOp = "new"
    /\ ret = Zero /\ out = <<>> /\ idxs = <<>>
    /\ panicked = FALSE
IdleOneShot == variant = "none" /\ data = <<>> /\ pc = "idle"
IdleReflect == rvalue = Zero /\ rwidth = 0 /\ rresult = Zero /\ rpc = "idle"

\* Crc32::new() / Crc32c::new(), lines 33-37
OneShotInit ==
    /\ variant \in {"crc32", "crc32c"}
    /\ data \in OneShotInputs
    /\ pc = "new"
    /\ LET e == new(VariantParams(variant))
       IN params = e.params /\ table = e.table /\ state = e.state
    /\ given = VariantParams(variant)
    /\ IdleEngineHistory
    /\ IdleReflect

\* digest.update(data)
OneShotUpdate ==
    /\ pc = "new"
    /\ LET r == update(Self, data)
       IN /\ state' = r.self.state
          /\ panicked' = r.panic
          /\ pc' = IF r.panic THEN "panic" ELSE "updated"
    /\ UNCHANGED <<params, table, given, fed, prevFed, prev, lastOp, ret,
                   out, idxs, variant, data, reflectVars>>

\* digest.finalize_u32()
OneShotFinalize ==
    /\ pc = "updated"
    /\ ret' = finalize_u32(Self).value
    /\ pc' = "done"
    /\ UNCHANGED <<params, table, state, given, fed, prevFed, prev, lastOp,
                   out, idxs, panicked, variant, data, reflectVars>>

OneShotNext == OneShotUpdate \/ OneShotFinalize
SpecOneShot == OneShotInit /\ [][OneShotNext]_vars

\* C1: the one-shot helpers return the standard check values:
\* crc32("123456789") = 0xCBF43926, crc32c("") = 0, crc32c("123456789") =
\* 0xE3069283, crc32c("The quick brown fox jumps over the lazy dog") =
\* 0x22620404, for the IEEE and Castagnoli descriptors of the two wrappers.
C1_KnownVectors ==
    /\ CRC32 = [name |-> "crc32", polynomial |-> Hex32(\h04C1, \h1DB7),
                init |-> 0..31, xor_out |-> 0..31,
                reflect_in |-> TRUE, reflect_out |-> TRUE]
    /\ CRC32C = [name |-> "crc32c", polynomial |-> Hex32(\h1EDC, \h6F41),
                 init |-> 0..31, xor_out |-> 0..31,
                 reflect_in |-> TRUE, reflect_out |-> TRUE]
    /\ pc = "done" =>
        /\ (variant = "crc32" /\ data = Check9) => ret = Hex32(\hCBF4, \h3926)
        /\ (variant = "crc32c" /\ data = <<>>) => ret = Zero
        /\ (variant = "crc32c" /\ data = Check9) => ret = Hex32(\hE306, \h9283)
        /\ (variant = "crc32c" /\ data = Fox) => ret = Hex32(\h2262, \h0404)
    /\ pc # "panic"

C1_Witness ==
    pc = "done" /\ variant = "crc32c" /\ data = Fox /\ ret = Hex32(\h2262, \h0404)

------------------------------------------------------------------------------
(* The engine as a state machine: a Crc32Engine built by new for some       *)
(* descriptor, then any sequence of calls.                                  *)

MaxLen == 3         \* bytes absorbed between two resets
MaxChunk == 2       \* bytes handed to one update call

Bytes == {49, 255}
Polys == {CRC32.polynomial, CRC32C.polynomial}
Inits == {Hex32(\hFFFF, \hFFFF), Zero, Hex32(\h0000, \h0001)}
XorOuts == {Hex32(\hFFFF, \hFFFF), Hex32(\h0000, \hF00F)}
Descriptors ==
    {Algorithm32("model", p, i, x, rin, rout) :
        p \in Polys, i \in Inits, x \in XorOuts, rin \in BOOLEAN, rout \in BOOLEAN}

SeqsUpTo(S, n) == UNION {[1..k -> S] : k \in 0..n}
Chunks == SeqsUpTo(Bytes, MaxChunk)

\* Crc32Engine::new(params)
Init ==
    /\ given \in Descriptors
    /\ LET e == new(given)
       IN params = e.params /\ table = e.table /\ state = e.state
    /\ IdleEngineHistory
    /\ IdleOneShot
    /\ IdleReflect

Usable == ~panicked /\ lastOp # "finalize_into"

\* Crc32Engine::update and <Crc32Engine as Update>::update
Update(bytes) ==
    /\ Usable
    /\ Len(fed) + Len(bytes) <= MaxLen
    /\ LET r == update(Self, bytes)
       IN /\ params' = r.self.params /\ table' = r.self.table /\ state' = r.self.state
          /\ idxs' = r.idxs
          /\ panicked' = r.panic
          /\ fed' = IF r.panic THEN fed ELSE fed \o bytes
    /\ prevFed' = fed /\ prev' = state
    /\ lastOp' = "update"
    /\ ret' = Zero /\ out' = <<>>
    /\ UNCHANGED <<given, oneShotVars, reflectVars>>

\* Crc32Engine::reset and <Crc32Engine as Reset>::reset
Reset ==
    /\ Usable
    /\ LET r == reset(Self)
       IN params' = r.params /\ table' = r.table /\ state' = r.state
    /\ fed' = <<>> /\ prevFed' = fed /\ prev' = state
    /\ lastOp' = "reset"
    /\ ret' = Zero /\ out' = <<>> /\ idxs' = <<>>
    /\ UNCHANGED <<given, panicked, oneShotVars, reflectVars>>

\* Crc32Engine::finalize_u32(&self)
Finalize ==
    /\ Usable
    /\ LET r == finalize_u32(Self)
       IN /\ params' = r.self.params /\ table' = r.self.table /\ state' = r.self.state
          /\ ret' = r.value
    /\ prevFed' = fed /\ prev' = state
    /\ lastOp' = "finalize_u32"
    /\ out' = <<>> /\ idxs' = <<>>
    /\ UNCHANGED <<given, fed, panicked, oneShotVars, reflectVars>>

\* <Crc32Engine as FixedOutput>::finalize_into(self, out): the engine is moved
\* into the call, so no call follows.
FinalizeInto ==
    /\ Usable
    /\ out' = finalize_into(Self)
    /\ prevFed' = fed /\ prev' = state
    /\ lastOp' = "finalize_into"
    /\ ret' = Zero /\ idxs' = <<>>
    /\ UNCHANGED <<params, table, state, given, fed, panicked,
                   oneShotVars, reflectVars>>

\* <Crc32Engine as FixedOutputReset>::finalize_into_reset(&mut self, out)
FinalizeIntoReset ==
    /\ Usable
    /\ LET r == finalize_into_reset(Self)
       IN /\ params' = r.self.params /\ table' = r.self.table /\ state' = r.self.state
          /\ out' = r.out
    /\ fed' = <<>> /\ prevFed' = fed /\ prev' = state
    /\ lastOp' = "finalize_into_reset"
    /\ ret' = Zero /\ idxs' = <<>>
    /\ UNCHANGED <<given, panicked, oneShotVars, reflectVars>>

Next ==
    \/ \E bytes \in Chunks : Update(bytes)
    \/ Reset
    \/ Finalize
    \/ FinalizeInto
    \/ FinalizeIntoReset

Spec == Init /\ [][Next]_vars

------------------------------------------------------------------------------
(* What a freshly constructed engine does, for comparison.  The tables are  *)
(* computed once per (polynomial, flag).                                    *)

TableOf == [rin \in BOOLEAN |-> [p \in Polys |-> build_table(p, rin)]]
Fresh(p) == [params |-> p, table |-> TableOf[p.reflect_in][p.polynomial], state |-> p.init]
\* new -> one update over all of bytes
OneUpdate(p, bytes) == update(Fresh(p), bytes).self
\* new -> one update over all of bytes -> finalize_u32
Checksum(p, bytes) == finalize_u32(OneUpdate(p, bytes)).value

\* C2: feeding the chunks of b through successive update calls leaves the
\* same register, and the same finalize_u32 result, as one update call over
\* all of b on a fresh engine, for every descriptor and every split (fed is
\* the concatenation of the chunks, empty ones included).
C2_StreamingEqualsOneShot ==
    lastOp = "update" =>
        /\ ~panicked
        /\ state = OneUpdate(given, fed).state
        /\ finalize_u32(Self).value = Checksum(given, fed)

\* the last of at least two non-empty chunks has been absorbed
C2_Witness ==
    /\ lastOp = "update" /\ prevFed # <<>> /\ prevFed # fed /\ Len(fed) = MaxLen
    /\ state = OneUpdate(given, fed).state

\* C3: reset, after any sequence of calls, leaves the engine equal to a
\* freshly constructed one of the same descriptor: the register is
\* params.init, and every update sequence that follows finalizes to what a
\* new engine gives for it.
C3_ResetIsFresh ==
    lastOp = "reset" =>
        /\ state = params.init
        /\ Self = Fresh(given)
        /\ \A bytes \in SeqsUpTo(Bytes, MaxLen) :
              finalize_u32(update(Self, bytes).self).value = Checksum(given, bytes)

\* a reset of an engine whose register had moved away from init
C3_Witness ==
    lastOp = "reset" /\ prevFed # <<>> /\ prev # params.init /\ state = params.init

\* C4: finalize_u32 is a non-destructive read: the step leaves params, table
\* and the register as they were, and a finalize_u32 made right after it
\* returns the same value again.
C4_FinalizeReadOnly ==
    [][lastOp' = "finalize_u32" =>
        /\ params' = params /\ table' = table /\ state' = state
        /\ ret' = finalize_value(state', params')
        /\ (lastOp = "finalize_u32" => ret' = ret)]_vars

\* finalize_u32 has read an engine that had absorbed input
C4_Witness ==
    /\ lastOp = "finalize_u32" /\ fed # <<>> /\ state = prev
    /\ ret = Checksum(given, fed) /\ ret # Checksum(given, <<>>)

\* C5: finalize_into_reset emits the checksum of the bytes absorbed since
\* construction or the last reset (what finalize_u32 would have returned just
\* before the call) and only then puts the register back to params.init;
\* afterwards the engine behaves as a fresh one.
C5_FinalizeThenReset ==
    lastOp = "finalize_into_reset" =>
        /\ out = to_be_bytes(finalize_value(prev, params))
        /\ out = to_be_bytes(Checksum(given, prevFed))
        /\ state = params.init
        /\ finalize_u32(Self).value = Checksum(given, <<>>)
        /\ \A x \in Chunks :
              finalize_u32(update(Self, x).self).value = Checksum(given, x)

\* the emitted checksum is that of a non-empty input and differs from the
\* checksum of the empty input
C5_Witness ==
    /\ lastOp = "finalize_into_reset" /\ prevFed # <<>> /\ fed = <<>>
    /\ out # to_be_bytes(Checksum(given, <<>>))

BitOfByte(b, k) == (b \div 2^k) % 2 = 1

\* C6: finalize_into and finalize_into_reset write exactly 4 bytes, the
\* big-endian encoding of the value finalize_u32 returns in that state:
\* out[0] = bits 31..24, ..., out[3] = bits 7..0 (out is 1-based here);
\* finalize_u32 itself returns the 32-bit value.
C6_BigEndianOutput ==
    /\ lastOp \in {"finalize_into", "finalize_into_reset"} =>
        /\ Len(out) = 4
        /\ \A i \in 1..4 : out[i] \in 0..255
        /\ \A i \in 1..4 : \A k \in 0..7 :
              BitOfByte(out[i], k) <=> (8 * (4 - i) + k) \in finalize_value(prev, params)
    /\ lastOp = "finalize_u32" => (ret \subseteq 0..31 /\ ret = finalize_value(prev, params))

\* finalize_into has written a checksum whose four bytes are all different
C6_Witness ==
    /\ lastOp = "finalize_into" /\ fed # <<>>
    /\ Cardinality({out[i] : i \in 1..4}) = 4

\* C7: every operation is total: no call ends in an error, every table
\* index of an absorb step lies in 0..255 (one index per byte), and an
\* update with an empty input leaves the register unchanged.
C7_Total ==
    /\ ~panicked
    /\ lastOp = "update" =>
        /\ Len(idxs) = Len(fed) - Len(prevFed)
        /\ \A i \in 1..Len(idxs) : idxs[i] \in 0..255
        /\ fed = prevFed => state = prev

\* a full chunk absorbed by the non-reflected loop with a high index
C7_Witness ==
    /\ lastOp = "update" /\ ~panicked /\ Len(idxs) = MaxChunk
    /\ ~params.reflect_in /\ params.reflect_out
    /\ \E i \in 1..Len(idxs) : idxs[i] > 127

\* C9: the register is the only field that changes: params is the
\* descriptor given to new and table is build_table(params.polynomial,
\* params.reflect_in) in every reachable state; reset does not alter it.
C9_OnlyRegisterMutable ==
    /\ params = given
    /\ table = TableOf[given.reflect_in][given.polynomial]

\* a reset after input, on a descriptor whose two flags differ
C9_Witness ==
    /\ lastOp = "reset" /\ prevFed # <<>> /\ prev # state
    /\ given.reflect_in # given.reflect_out
    /\ table = TableOf[given.reflect_in][given.polynomial]

------------------------------------------------------------------------------
(* The bit-by-bit reference CRC of claim C10: the register starts at init,  *)
(* each byte is bit-reversed when reflect_in is set and shifted in          *)
(* MSB-first against the polynomial, the final register is bit-reversed     *)
(* when reflect_out is set, and the result is XORed with xor_out.           *)

Reverse(v, w) == {w - 1 - b : b \in v}

RECURSIVE RefShift(_, _, _)
RefShift(reg, poly, n) ==
    IF n = 0 THEN reg
    ELSE RefShift(IF 31 \in reg THEN Xor(Shl(reg, 1), poly) ELSE Shl(reg, 1), poly, n - 1)

RECURSIVE RefRegister(_, _, _)
RefRegister(reg, p, bytes) ==
    IF bytes = <<>> THEN reg
    ELSE LET b == IF p.reflect_in THEN Reverse(BitsOf(Head(bytes)), 8)
                                  ELSE BitsOf(Head(bytes))
             next == RefShift(Xor(reg, Shl(b, 24)), p.polynomial, 8)
         IN IF Evaluated(next) THEN RefRegister(next, p, Tail(bytes)) ELSE reg

ReferenceCrc(p, bytes) ==
    LET reg == RefRegister(p.init, p, bytes)
    IN Xor(IF p.reflect_out THEN Reverse(reg, 32) ELSE reg, p.xor_out)

\* C10: for every descriptor and every byte sequence, new -> update ->
\* finalize_u32 equals the bit-by-bit reference CRC for the same parameters.
C10_EngineEqualsReference ==
    lastOp = "finalize_u32" => ret = ReferenceCrc(given, fed)

------------------------------------------------------------------------------
(* reflect_bits as a function: called on a value below 2^width, then on     *)
(* its own result.                                                          *)

MaxFullWidth == 4   \* widths up to this one are tried on every value

\* patterns cut down to the width for the larger widths
ReflectSamples ==
    {Zero, One, Hex32(\h0000, \h0003), Hex32(\h0000, \h0009), Hex32(\h0000, \hF00F),
     CRC32.polynomial, CRC32C.polynomial, Hex32(\hFFFF, \hFFFF)}

ReflectValues(w) ==
    IF w <= MaxFullWidth THEN SUBSET (0..(w - 1))
    ELSE {And(v, 0..(w - 1)) : v \in ReflectSamples}

NoEngine ==
    /\ params = [name |-> "none"] /\ table = <<>> /\ state = Zero /\ given = params
    /\ IdleEngineHistory

ReflectInit ==
    /\ rwidth \in 1..32
    /\ rvalue \in ReflectValues(rwidth)
    /\ rresult = Zero
    /\ rpc = "call"
    /\ NoEngine
    /\ IdleOneShot

\* reflect_bits(value, width)
Reflect ==
    /\ rpc = "call"
    /\ rresult' = reflect_bits(rvalue, rwidth)
    /\ rpc' = "once"
    /\ UNCHANGED <<rvalue, rwidth, engineVars, oneShotVars>>

\* reflect_bits applied to the result of the first call
ReflectAgain ==
    /\ rpc = "once"
    /\ rresult' = reflect_bits(rresult, rwidth)
    /\ rpc' = "twice"
    /\ UNCHANGED <<rvalue, rwidth, engineVars, oneShotVars>>

ReflectNext == Reflect \/ ReflectAgain
SpecReflect == ReflectInit /\ [][ReflectNext]_vars

\* C8: for every width w in 1..32 and v < 2^w, bit k of reflect_bits(v, w) is
\* bit (w-1-k) of v for k < w and no bit at or above w is set; reflecting
\* twice gives v back; reflect_bits(0b1001, 4) = 0b1001 and
\* reflect_bits(0b0011, 4) = 0b1100.
C8_ReflectExact ==
    /\ rpc = "once" =>
        /\ \A k \in 0..31 : k \in rresult <=> (k < rwidth /\ (rwidth - 1 - k) \in rvalue)
        /\ (rwidth = 4 /\ rvalue = {0, 3}) => rresult = {0, 3}
        /\ (rwidth = 4 /\ rvalue = {0, 1}) => rresult = {2, 3}
    /\ rpc = "twice" => rresult = rvalue

\* 0b0011 reflected across 4 bits twice
C8_Witness ==
    rpc = "twice" /\ rwidth = 4 /\ rvalue = {0, 1} /\ rresult = {0, 1}

====
